---- MODULE Spec2Model ----
(***************************************************************************)
(* Volumetric propagation of an object mask, micro_sam's                   *)
(* segment_mask_in_volume (multi_dimensional_segmentation.py).             *)
(*                                                                         *)
(* A slice mask is the set of its foreground pixels (the pixels holding    *)
(* 1); the volume `segmentation` maps a slice index to its mask.  One      *)
(* step of the model is one call of segment_from_mask together with the    *)
(* statements around it, or one branch decision between two calls.         *)
(***************************************************************************)
EXTENDS Integers, Sequences, FiniteSets, TLC

\* A volume has at most MaxVoxels voxels, a slice 1 .. MaxPixels pixels: one
\* pixel per slice allows MaxVoxels slices, two pixels half as many.
MaxVoxels == 8
MaxPixels == 2
\* iou_threshold ranges over 1/ThrDen .. ThrDen/ThrDen.
ThrDen == 2
\* Volumes of the calls with arbitrary configuration have up to CfgSlices
\* slices of one pixel.
CfgSlices == 5
\* run_inference_with_prompts is given up to MaxImages images, whose file
\* names and label file names are among 1 .. MaxImages.
MaxImages == 2

VARIABLES
    npix,              \* pixels per slice (segmentation.shape[1:])
    nslices,           \* segmentation.shape[0]
    segmentation,      \* the volume, mutated in place
    initial,           \* history: the volume as passed in
    segmented_slices,  \* the seed slices, ascending
    stop_lower,
    stop_upper,
    iou_threshold,     \* numerator over ThrDen
    projection,
    box_extension,     \* its sign and size as an integer
    use_box,           \* the prompt flags of lines 47-52
    use_mask,
    use_points,
    z0,                \* the lowest and the highest seed slice (line 81)
    z1,
    pc,                \* position in segment_mask_in_volume
    frame,             \* locals of the running segment_range call
    k,                 \* index of the pair of the zip loop (line 94)
    log,               \* history: one record per segment_from_mask call
    \* segment_3d_from_slice (lines 140-213)
    seed_seg,          \* its seg_z, the labelled seed slice (line 194): pixel -> label
    z_slice,           \* z, the seed slice
    seg_ids,           \* the object labels (line 201)
    obj,               \* index of the for loop of line 203 in seg_ids
    merged,            \* its local `segmentation` (line 202): slice -> pixel -> label
    volumes,           \* history: the per-object volumes merged so far
    \* run_inference_with_prompts (evaluation/inference.py, lines 296-382)
    image_paths,       \* the images: the basename of each path
    gt_paths,          \* the label images: the basename of each path
    missing,           \* the indices whose image or label file does not exist
    prediction_dir,    \* file system: the names that have a prediction file
    prompt_save_dir,   \* "None" or "dir"
    prompt_files,      \* file system: per prompt type, the pickled prompts
    use_prompts,       \* use_points and use_boxes, by prompt type
    cached_prompts,    \* cached_point_prompts and cached_box_prompts
    save_prompts,      \* save_point_prompts and save_box_prompts
    img,               \* index of the for loop of line 339
    run,               \* 1 for the first call, 2 for the call repeated
    pred_writes,       \* history: the imageio.imwrite calls of line 373
    loads,             \* history: the pickle.load calls of line 40
    dumps              \* history: the pickle.dump calls of lines 379, 382

vars == <<npix, nslices, segmentation, initial, segmented_slices, stop_lower, stop_upper,
          iou_threshold, projection, box_extension, use_box, use_mask, use_points,
          z0, z1, pc, frame, k, log, seed_seg, z_slice, seg_ids, obj, merged, volumes,
          image_paths, gt_paths, missing, prediction_dir, prompt_save_dir, prompt_files,
          use_prompts, cached_prompts, save_prompts, img, run, pred_writes, loads, dumps>>

\* The arguments of the call and what is computed from them once.
args == <<npix, nslices, initial, segmented_slices, stop_lower, stop_upper,
          iou_threshold, projection, box_extension, z0, z1>>
\* The locals of segment_3d_from_slice.
outer == <<seed_seg, z_slice, seg_ids, obj, merged, volumes>>
\* The state of run_inference_with_prompts.
inference == <<image_paths, gt_paths, missing, prediction_dir, prompt_save_dir,
               prompt_files, use_prompts, cached_prompts, save_prompts, img, run,
               pred_writes, loads, dumps>>
config == <<args, use_box, use_mask, use_points, outer, inference>>
\* The state of the volumetric segmentation, but for pc.
propagation == <<args, use_box, use_mask, use_points, outer, segmentation, frame, k, log>>

----------------------------------------------------------------------------
\* Helpers on masks and slices.

Masks == SUBSET (1 .. npix)
Slices == 0 .. (nslices - 1)
\* What a call of segment_from_mask gives: a mask, or an exception.
Returned(m) == [raised |-> FALSE, mask |-> m]
Raise == [raised |-> TRUE, mask |-> {}]
NoFrame == [z |-> -1]

RECURSIVE SortedSeq(_)
SortedSeq(S) ==
    IF S = {} THEN <<>>
    ELSE LET m == CHOOSE x \in S : \A y \in S : x <= y
         IN <<m>> \o SortedSeq(S \ {m})

SeedSet == {segmented_slices[j] : j \in 1 .. Len(segmented_slices)}

\* segmented_slices.min() and segmented_slices.max(), line 81
slices_min(seq) ==
    CHOOSE x \in {seq[j] : j \in 1 .. Len(seq)} : \A j \in 1 .. Len(seq) : x <= seq[j]
slices_max(seq) ==
    CHOOSE x \in {seq[j] : j \in 1 .. Len(seq)} : \A j \in 1 .. Len(seq) : x >= seq[j]

\* Variant: only the first mask makes the prompt.
logical_or_first_only(a, b) == a

\* np.logical_or(segmentation[a] == 1, segmentation[b] == 1), lines 109, 129
logical_or(a, b) == a \cup b

\* util.compute_iou: the overlap ratio as <<numerator, denominator>>; two
\* empty masks have ratio 0.
compute_iou(mask1, mask2) ==
    IF mask1 \cup mask2 = {} THEN <<0, 1>>
    ELSE <<Cardinality(mask1 \cap mask2), Cardinality(mask1 \cup mask2)>>

\* Variant: the gate also halts on equality.
IouLessOrEqual(iou, thr) == iou[1] * ThrDen <= thr * iou[2]

\* iou < threshold, line 69 (threshold is thr / ThrDen)
IouLess(iou, thr) == iou[1] * ThrDen < thr * iou[2]

\* The outcomes of segment_from_mask for a prompt mask: any mask of the slice
\* shape, or an exception; the box of an empty mask cannot be computed.
segment_from_mask(prompt) ==
    IF prompt = {} THEN {Raise} ELSE {Returned(m) : m \in Masks} \cup {Raise}

\* Variant: np.less behaves as np.less_equal.
stopping_criterion_less_early(name, z, z_stop) ==
    CASE name = "less" -> z <= z_stop
      [] name = "greater" -> z > z_stop
      [] name = "less_equal" -> z <= z_stop
      [] name = "greater_equal" -> z >= z_stop

\* The comparators passed as stopping_criterion (np.less, np.greater, ...).
stopping_criterion(name, z, z_stop) ==
    CASE name = "less" -> z < z_stop
      [] name = "greater" -> z > z_stop
      [] name = "less_equal" -> z <= z_stop
      [] name = "greater_equal" -> z >= z_stop

----------------------------------------------------------------------------
\* segment_mask_in_volume called on its own: segment_3d_from_slice is not
\* running.
\* run_inference_with_prompts is not running.
NoInference ==
    /\ image_paths = <<>>
    /\ gt_paths = <<>>
    /\ missing = {}
    /\ prediction_dir = {}
    /\ prompt_save_dir = "None"
    /\ prompt_files = <<>>
    /\ use_prompts = <<>>
    /\ cached_prompts = <<>>
    /\ save_prompts = <<>>
    /\ img = 0
    /\ run = 0
    /\ pred_writes = <<>>
    /\ loads = <<>>
    /\ dumps = <<>>

NoOuter ==
    /\ seed_seg = <<>>
    /\ z_slice = 0
    /\ seg_ids = <<>>
    /\ obj = 0
    /\ merged = <<>>
    /\ volumes = <<>>

Init ==
    /\ npix \in 1 .. MaxPixels
    /\ nslices \in 1 .. (MaxVoxels \div npix)
    /\ \E S \in (SUBSET (0 .. (nslices - 1))) \ {{}} :
          /\ segmented_slices = SortedSeq(S)
          /\ \E seed \in [S -> (SUBSET (1 .. npix)) \ {{}}] :
                segmentation = [z \in 0 .. (nslices - 1) |->
                                   IF z \in S THEN seed[z] ELSE {}]
    /\ initial = segmentation
    /\ stop_lower \in BOOLEAN
    /\ stop_upper \in BOOLEAN
    /\ iou_threshold \in 1 .. ThrDen
    /\ projection = "mask"
    /\ box_extension = 0
    /\ use_box = FALSE /\ use_mask = FALSE /\ use_points = FALSE
    /\ z0 = slices_min(segmented_slices)
    /\ z1 = slices_max(segmented_slices)
    /\ pc = "entry"
    /\ frame = NoFrame
    /\ k = 1
    /\ log = <<>>
    /\ NoOuter
    /\ NoInference

\* Calls with any configuration, valid or not: iou_threshold from 0 to above
\* 1, a projection that is none of the three modes, a negative
\* box_extension.
InitConfig ==
    /\ npix = 1
    /\ nslices \in 1 .. CfgSlices
    /\ \E S \in (SUBSET (0 .. (nslices - 1))) \ {{}} :
          /\ segmented_slices = SortedSeq(S)
          /\ segmentation = [z \in 0 .. (nslices - 1) |-> IF z \in S THEN {1} ELSE {}]
    /\ initial = segmentation
    /\ stop_lower \in BOOLEAN
    /\ stop_upper \in BOOLEAN
    /\ iou_threshold \in 0 .. (ThrDen + 1)
    /\ projection \in {"mask", "bounding_box", "points", "unknown"}
    /\ box_extension \in {-1, 0, 1}
    /\ use_box = FALSE /\ use_mask = FALSE /\ use_points = FALSE
    /\ z0 = slices_min(segmented_slices)
    /\ z1 = slices_max(segmented_slices)
    /\ pc = "entry"
    /\ frame = NoFrame
    /\ k = 1
    /\ log = <<>>
    /\ NoOuter
    /\ NoInference

\* Variant: projection 'points' gives a prompt of points and box only.
projection_flags_points_only(p) ==
    IF p = "mask" THEN <<TRUE, TRUE, FALSE>>
    ELSE IF p = "points" THEN <<TRUE, FALSE, TRUE>>
    ELSE <<TRUE, FALSE, FALSE>>

\* use_box, use_mask, use_points for a projection (lines 47-52)
projection_flags(p) ==
    IF p = "mask" THEN <<TRUE, TRUE, FALSE>>
    ELSE IF p = "points" THEN <<TRUE, TRUE, TRUE>>
    ELSE <<TRUE, FALSE, FALSE>>

\* lines 46-52: the assertion on projection, then the prompt flags.  Nothing
\* else of the arguments is looked at before line 81.
CheckProjection ==
    /\ pc = "entry"
    /\ IF projection \in {"mask", "bounding_box", "points"}
       THEN /\ use_box' = projection_flags(projection)[1]
            /\ use_mask' = projection_flags(projection)[2]
            /\ use_points' = projection_flags(projection)[3]
            /\ pc' = "below"
       ELSE /\ pc' = "rejected"
            /\ UNCHANGED <<use_box, use_mask, use_points>>
    /\ UNCHANGED <<args, outer, inference, segmentation, frame, k, log>>

----------------------------------------------------------------------------
\* segment_range (lines 58-79).

\* Variant: the walk starts two slices from z_start.
segment_range_skips_first(z_start, z_stop, increment, criterion, threshold, ret, by) ==
    [z_start |-> z_start, z_stop |-> z_stop, increment |-> increment,
     stopping_criterion |-> criterion, threshold |-> threshold,
     z |-> z_start + 2 * increment, ret |-> ret, by |-> by]

\* The call segment_range(z_start, z_stop, increment, stopping_criterion,
\* threshold): its locals after line 59.  threshold is TRUE when
\* iou_threshold was passed and FALSE when it is None; ret is the position
\* the caller continues at ("next": the next pair of the zip loop), by names
\* the call site.
segment_range(z_start, z_stop, increment, criterion, threshold, ret, by) ==
    [z_start |-> z_start, z_stop |-> z_stop, increment |-> increment,
     stopping_criterion |-> criterion, threshold |-> threshold,
     z |-> z_start + increment, ret |-> ret, by |-> by]

\* Variant: the candidate is assigned before the gate is consulted.
segment_range_step_write_first(seg, fr, seg_z, thr) ==
    LET seg_prev == seg[fr.z - fr.increment]
        z2 == fr.z + fr.increment
    IN  IF seg_z = Raise
        THEN [segmentation |-> seg, exit |-> "raise", z |-> fr.z]
        ELSE IF fr.threshold /\ IouLess(compute_iou(seg_prev, seg_z.mask), thr)
        THEN [segmentation |-> [seg EXCEPT ![fr.z] = seg_z.mask],
              exit |-> "break", z |-> fr.z]
        ELSE [segmentation |-> [seg EXCEPT ![fr.z] = seg_z.mask],
              exit |-> IF stopping_criterion(fr.stopping_criterion, z2, fr.z_stop)
                       THEN "stop" ELSE "loop",
              z |-> z2]

\* Variant: the gate is consulted whether or not a threshold was passed.
segment_range_step_always_gated(seg, fr, seg_z, thr) ==
    LET seg_prev == seg[fr.z - fr.increment]
        z2 == fr.z + fr.increment
    IN  IF seg_z = Raise
        THEN [segmentation |-> seg, exit |-> "raise", z |-> fr.z]
        ELSE IF IouLess(compute_iou(seg_prev, seg_z.mask), thr)
        THEN [segmentation |-> seg, exit |-> "break", z |-> fr.z]
        ELSE [segmentation |-> [seg EXCEPT ![fr.z] = seg_z.mask],
              exit |-> IF stopping_criterion(fr.stopping_criterion, z2, fr.z_stop)
                       THEN "stop" ELSE "loop",
              z |-> z2]

\* Variant: an exception of segment_from_mask is answered by copying the
\* previous slice into slice z.
segment_range_step_fallback(seg, fr, seg_z, thr) ==
    LET seg_prev == seg[fr.z - fr.increment]
        z2 == fr.z + fr.increment
    IN  IF seg_z = Raise
        THEN [segmentation |-> [seg EXCEPT ![fr.z] = seg_prev],
              exit |-> "raise", z |-> fr.z]
        ELSE IF fr.threshold /\ IouLess(compute_iou(seg_prev, seg_z.mask), thr)
        THEN [segmentation |-> seg, exit |-> "break", z |-> fr.z]
        ELSE [segmentation |-> [seg EXCEPT ![fr.z] = seg_z.mask],
              exit |-> IF stopping_criterion(fr.stopping_criterion, z2, fr.z_stop)
                       THEN "stop" ELSE "loop",
              z |-> z2]

\* Variant: an exception of segment_from_mask is caught and ends the walk.
segment_range_step_catches(seg, fr, seg_z, thr) ==
    LET seg_prev == seg[fr.z - fr.increment]
        z2 == fr.z + fr.increment
    IN  IF seg_z = Raise
        THEN [segmentation |-> seg, exit |-> "break", z |-> fr.z]
        ELSE IF fr.threshold /\ IouLess(compute_iou(seg_prev, seg_z.mask), thr)
        THEN [segmentation |-> seg, exit |-> "break", z |-> fr.z]
        ELSE [segmentation |-> [seg EXCEPT ![fr.z] = seg_z.mask],
              exit |-> IF stopping_criterion(fr.stopping_criterion, z2, fr.z_stop)
                       THEN "stop" ELSE "loop",
              z |-> z2]

\* One iteration of the while loop (lines 63-78), given what
\* segment_from_mask gave for slice fr.z.
segment_range_step(seg, fr, seg_z, thr) ==
    LET seg_prev == seg[fr.z - fr.increment]
        z2 == fr.z + fr.increment
    IN  IF seg_z = Raise
        THEN [segmentation |-> seg, exit |-> "raise", z |-> fr.z]
        ELSE IF fr.threshold /\ IouLess(compute_iou(seg_prev, seg_z.mask), thr)
        THEN [segmentation |-> seg, exit |-> "break", z |-> fr.z]
        ELSE [segmentation |-> [seg EXCEPT ![fr.z] = seg_z.mask],
              exit |-> IF stopping_criterion(fr.stopping_criterion, z2, fr.z_stop)
                       THEN "stop" ELSE "loop",
              z |-> z2]

\* A history record of one segment_from_mask call: the slice i asked for, the
\* slices the prompt was read from, the call site, the prompt, the outcome
\* and whether the outcome was assigned to segmentation[i], with the prompt
\* flags and the box_extension passed (lines 65-66, 112-113, 132-133).
Call(i, src, by, prompt, out, wrote) ==
    [i |-> i, src |-> src, by |-> by, prompt |-> prompt, out |-> out, wrote |-> wrote,
     use_box |-> use_box, use_mask |-> use_mask, use_points |-> use_points,
     box_extension |-> box_extension]

RangeStep ==
    /\ pc = "range"
    /\ LET seg_prev == segmentation[frame.z - frame.increment]
       IN \E seg_z \in segment_from_mask(seg_prev) :
            LET r == segment_range_step(segmentation, frame, seg_z, iou_threshold)
            IN /\ segmentation' = r.segmentation
               /\ log' = Append(log, Call(frame.z, {frame.z - frame.increment}, frame.by,
                                          seg_prev, seg_z, r.exit \in {"stop", "loop"}))
               /\ pc' = CASE r.exit = "raise" -> "raised"
                          [] r.exit = "loop" -> "range"
                          [] frame.ret = "next" -> "gap"
                          [] OTHER -> frame.ret
               /\ frame' = IF r.exit = "loop" THEN [frame EXCEPT !.z = r.z] ELSE NoFrame
               /\ k' = IF r.exit \in {"stop", "break"} /\ frame.ret = "next"
                       THEN k + 1 ELSE k
    /\ UNCHANGED config

----------------------------------------------------------------------------
\* segment_mask_in_volume (lines 81-137).

\* Variant: the walk below ignores stop_lower.
below_guard_ignores_stop(lo, sl) == lo > 0

\* line 84
below_guard(lo, sl) == lo > 0 /\ ~sl
\* line 88
above_guard(hi, n, su) == hi < n - 1 /\ ~su

\* segment below the min slice (lines 84-85)
BelowMin ==
    /\ pc = "below"
    /\ IF below_guard(z0, stop_lower)
       THEN /\ frame' = segment_range(z0, 0, -1, "less", TRUE, "above", "below")
            /\ pc' = "range"
       ELSE /\ frame' = frame
            /\ pc' = "above"
    /\ UNCHANGED <<config, segmentation, k, log>>

\* segment above the max slice (lines 88-89)
AboveMax ==
    /\ pc = "above"
    /\ IF above_guard(z1, nslices, stop_upper)
       THEN /\ frame' = segment_range(z1, nslices - 1, 1, "greater", TRUE, "gap", "above")
            /\ pc' = "range"
       ELSE /\ frame' = frame
            /\ pc' = "gap"
    /\ UNCHANGED <<config, segmentation, k, log>>

\* The pair of the zip loop at index k (line 94).
HasPair == z0 # z1 /\ k <= Len(segmented_slices) - 1
z_start == segmented_slices[k]
z_stop == segmented_slices[k + 1]

\* line 96
z_mid(a, b) == (a + b) \div 2

\* Variant: the two stop branches are exchanged.
gap_case_stops_swapped(a, b, lo, hi, sl, su) ==
    IF b - a = 1 THEN "adjacent"
    ELSE IF a = lo /\ sl THEN "from_lower"
    ELSE IF b = hi /\ su THEN "from_upper"
    ELSE IF b - a = 2 THEN "combined"
    ELSE "ranges"

\* Variant: a range of one slice is segmented like a longer one.
gap_case_no_combined(a, b, lo, hi, sl, su) ==
    IF b - a = 1 THEN "adjacent"
    ELSE IF a = lo /\ sl THEN "from_upper"
    ELSE IF b = hi /\ su THEN "from_lower"
    ELSE "ranges"

\* The branch of the if/elif chain taken for a pair (lines 98-117).
gap_case(a, b, lo, hi, sl, su) ==
    IF b - a = 1 THEN "adjacent"
    ELSE IF a = lo /\ sl THEN "from_upper"
    ELSE IF b = hi /\ su THEN "from_lower"
    ELSE IF b - a = 2 THEN "combined"
    ELSE "ranges"

ThisCase == gap_case(z_start, z_stop, z0, z1, stop_lower, stop_upper)

\* Variant: the walk from the bottom always uses np.greater.
bottom_criterion_always_greater(slice_diff) == "greater"

\* Variant: the two comparators are exchanged.
bottom_criterion_swapped(slice_diff) ==
    IF slice_diff % 2 = 0 THEN "greater" ELSE "greater_equal"

\* line 120: the comparator of the walk from the bottom
bottom_criterion(slice_diff) ==
    IF slice_diff % 2 = 0 THEN "greater_equal" ELSE "greater"

\* A call of segment_from_mask with the combined mask of slices a and b as
\* prompt, assigned to slice z (lines 109-114, 129-134).
combined_step(seg, a, b, z, seg_z) ==
    IF seg_z = Raise THEN seg ELSE [seg EXCEPT ![z] = seg_z.mask]

\* lines 98-99
GapAdjacent ==
    /\ pc = "gap" /\ HasPair /\ ThisCase = "adjacent"
    /\ k' = k + 1
    /\ UNCHANGED <<config, segmentation, pc, frame, log>>

\* lines 101-102
GapFromUpper ==
    /\ pc = "gap" /\ HasPair /\ ThisCase = "from_upper"
    /\ frame' = segment_range(z_stop, z_start, -1, "less_equal", FALSE, "next", "from_upper")
    /\ pc' = "range"
    /\ UNCHANGED <<config, segmentation, k, log>>

\* lines 104-105
GapFromLower ==
    /\ pc = "gap" /\ HasPair /\ ThisCase = "from_lower"
    /\ frame' = segment_range(z_start, z_stop, 1, "greater_equal", FALSE, "next", "from_lower")
    /\ pc' = "range"
    /\ UNCHANGED <<config, segmentation, k, log>>

\* lines 107-115
GapCombined ==
    /\ pc = "gap" /\ HasPair /\ ThisCase = "combined"
    /\ LET z == z_start + 1
           seg_prompt == logical_or(segmentation[z_start], segmentation[z_stop])
       IN \E seg_z \in segment_from_mask(seg_prompt) :
            /\ segmentation' = combined_step(segmentation, z_start, z_stop, z, seg_z)
            /\ log' = Append(log, Call(z, {z_start, z_stop}, "combined",
                                       seg_prompt, seg_z, seg_z # Raise))
            /\ pc' = IF seg_z = Raise THEN "raised" ELSE "gap"
            /\ k' = IF seg_z = Raise THEN k ELSE k + 1
    /\ UNCHANGED <<config, frame>>

\* lines 117-121: segment from bottom
GapFromBottom ==
    /\ pc = "gap" /\ HasPair /\ ThisCase = "ranges"
    /\ frame' = segment_range(z_start, z_mid(z_start, z_stop), 1,
                              bottom_criterion(z_stop - z_start), FALSE, "top", "bottom")
    /\ pc' = "range"
    /\ UNCHANGED <<config, segmentation, k, log>>

\* lines 122-123: segment from top
GapFromTop ==
    /\ pc = "top"
    /\ frame' = segment_range(z_stop, z_mid(z_start, z_stop), -1, "less_equal",
                              FALSE, "middle", "top")
    /\ pc' = "range"
    /\ UNCHANGED <<config, segmentation, k, log>>

\* lines 128-135: the slice in the middle of an even range
GapMiddle ==
    /\ pc = "middle"
    /\ LET zm == z_mid(z_start, z_stop)
       IN IF (z_stop - z_start) % 2 = 0
          THEN LET seg_prompt == logical_or(segmentation[zm - 1], segmentation[zm + 1])
               IN \E seg_z \in segment_from_mask(seg_prompt) :
                    /\ segmentation' = combined_step(segmentation, zm - 1, zm + 1, zm, seg_z)
                    /\ log' = Append(log, Call(zm, {zm - 1, zm + 1}, "middle",
                                               seg_prompt, seg_z, seg_z # Raise))
                    /\ pc' = IF seg_z = Raise THEN "raised" ELSE "gap"
                    /\ k' = IF seg_z = Raise THEN k ELSE k + 1
          ELSE /\ pc' = "gap"
               /\ k' = k + 1
               /\ UNCHANGED <<segmentation, log>>
    /\ UNCHANGED <<config, frame>>

\* line 137
Return ==
    /\ pc = "gap" /\ ~HasPair
    /\ pc' = "done"
    /\ UNCHANGED <<config, segmentation, frame, k, log>>

Next ==
    \/ CheckProjection
    \/ BelowMin
    \/ AboveMax
    \/ RangeStep
    \/ GapAdjacent
    \/ GapFromUpper
    \/ GapFromLower
    \/ GapCombined
    \/ GapFromBottom
    \/ GapFromTop
    \/ GapMiddle
    \/ Return

Spec == Init /\ [][Next]_vars

\* The same program over calls with any configuration.
\* segment_mask_in_volume is one sequential call: whenever a statement can
\* run, one runs.
SpecFair == Init /\ [][Next]_vars /\ WF_vars(Next)

SpecConfig == InitConfig /\ [][Next]_vars

\* A call with a single seed slice: z0 = z1, so the loop over the pairs of
\* line 94 is not entered.
NextSingle ==
    \/ CheckProjection
    \/ BelowMin
    \/ AboveMax
    \/ RangeStep
    \/ Return

\* The end-to-end scenario of spec section 8: a volume of 10 slices, the
\* object seeded at slice 5 only, no stop flag.
InitScenario ==
    /\ npix = 1
    /\ nslices = 10
    /\ segmented_slices = <<5>>
    /\ segmentation = [z \in 0 .. 9 |-> IF z = 5 THEN {1} ELSE {}]
    /\ initial = segmentation
    /\ stop_lower = FALSE
    /\ stop_upper = FALSE
    /\ iou_threshold \in 1 .. ThrDen
    /\ projection = "mask"
    /\ box_extension = 0
    /\ use_box = FALSE /\ use_mask = FALSE /\ use_points = FALSE
    /\ z0 = slices_min(segmented_slices)
    /\ z1 = slices_max(segmented_slices)
    /\ pc = "entry"
    /\ frame = NoFrame
    /\ k = 1
    /\ log = <<>>
    /\ NoOuter
    /\ NoInference

SpecScenario == InitScenario /\ [][NextSingle]_vars

----------------------------------------------------------------------------
\* segment_3d_from_slice (lines 140-213), from line 200 on.

\* np.unique(seg_z)[1:], line 201: the labels in ascending order without the
\* first one.
unique_ids(labels) ==
    Tail(SortedSeq({labels[p] : p \in DOMAIN labels}))

\* lines 204-205: a zero volume with the mask of the object at slice z
this_seg(labels, z, seg_id) ==
    [zz \in Slices |-> IF zz = z THEN {p \in DOMAIN labels : labels[p] = seg_id} ELSE {}]

\* Variant: a voxel keeps the label of the first object that covers it.
merge_object_first_wins(vol, seg, seg_id) ==
    [zz \in Slices |->
        [p \in 1 .. npix |-> IF p \in seg[zz] /\ vol[zz][p] = 0 THEN seg_id ELSE vol[zz][p]]]

\* segmentation[this_seg > 0] = seg_id, line 211
merge_object(vol, seg, seg_id) ==
    [zz \in Slices |->
        [p \in 1 .. npix |-> IF p \in seg[zz] THEN seg_id ELSE vol[zz][p]]]

\* The state at line 203.  The seed slice holds background (label 0,
\* with_background=True) at its first pixel and labels in non-decreasing
\* pixel order; z is any slice; the other arguments are the defaults.
Init3d ==
    /\ npix \in 1 .. (MaxPixels + 1)
    /\ nslices \in 1 .. (MaxVoxels \div npix)
    /\ seed_seg \in {f \in [1 .. npix -> 0 .. (npix - 1)] :
                        /\ f[1] = 0
                        /\ \A p \in 1 .. (npix - 1) : f[p] <= f[p + 1]}
    /\ z_slice \in 0 .. (nslices - 1)
    /\ seg_ids = unique_ids(seed_seg)
    /\ obj = 1
    /\ merged = [zz \in 0 .. (nslices - 1) |-> [p \in 1 .. npix |-> 0]]
    /\ volumes = <<>>
    /\ segmentation = [zz \in 0 .. (nslices - 1) |-> {}]
    /\ initial = segmentation
    /\ segmented_slices = <<z_slice>>
    /\ stop_lower = FALSE
    /\ stop_upper = FALSE
    /\ iou_threshold \in 1 .. ThrDen
    /\ projection = "mask"
    /\ box_extension = 0
    /\ use_box = FALSE /\ use_mask = FALSE /\ use_points = FALSE
    /\ z0 = z_slice
    /\ z1 = z_slice
    /\ pc = "for"
    /\ frame = NoFrame
    /\ k = 1
    /\ log = <<>>
    /\ NoInference

\* lines 203-210: the next object, and the call of segment_mask_in_volume
\* on a volume of its own
SegmentObject ==
    /\ pc = "for"
    /\ obj <= Len(seg_ids)
    /\ segmentation' = this_seg(seed_seg, z_slice, seg_ids[obj])
    /\ initial' = segmentation'
    /\ segmented_slices' = <<z_slice>>
    /\ stop_lower' = FALSE
    /\ stop_upper' = FALSE
    /\ z0' = z_slice
    /\ z1' = z_slice
    /\ use_box' = FALSE /\ use_mask' = FALSE /\ use_points' = FALSE
    /\ pc' = "entry"
    /\ frame' = NoFrame
    /\ k' = 1
    /\ log' = <<>>
    /\ UNCHANGED <<npix, nslices, iou_threshold, projection, box_extension, outer,
                   inference>>

\* line 211: the returned volume is merged
MergeObject ==
    /\ pc = "done"
    /\ merged' = merge_object(merged, segmentation, seg_ids[obj])
    /\ volumes' = Append(volumes, [seg_id |-> seg_ids[obj], this_seg |-> segmentation])
    /\ obj' = obj + 1
    /\ pc' = "for"
    /\ UNCHANGED <<args, use_box, use_mask, use_points, seed_seg, z_slice, seg_ids, inference,
                   segmentation, frame, k, log>>

\* line 213
ReturnVolume ==
    /\ pc = "for"
    /\ obj > Len(seg_ids)
    /\ pc' = "returned"
    /\ UNCHANGED <<config, segmentation, frame, k, log>>

Next3d ==
    \/ SegmentObject
    \/ NextSingle
    \/ MergeObject
    \/ ReturnVolume

Spec3d == Init3d /\ [][Next3d]_vars

----------------------------------------------------------------------------
\* run_inference_with_prompts (evaluation/inference.py, lines 296-382) with
\* _get_prompt_caching (258-293) and _load_prompts (26-63).  A path is
\* modelled by its basename, a pickled dict of prompts by a function from
\* label file names to the image the prompts were made for (0: by an earlier
\* experiment, -1: the empty list of line 53 or 58).

PromptTypes == {"point", "box"}
Names == 1 .. MaxImages
EmptyDict == [x \in {} |-> 0]
\* The values of cached_point_prompts / cached_box_prompts: None, the path of
\* the prompt file not loaded yet (a str), or the dict.
None == [kind |-> "None", dict |-> EmptyDict]
Path == [kind |-> "str", dict |-> EmptyDict]
Dict(d) == [kind |-> "dict", dict |-> d]
\* A prompt file: absent, or holding a pickled dict.
Absent == [exists |-> FALSE, dict |-> EmptyDict]
File(d) == [exists |-> TRUE, dict |-> d]

\* List of names in which a name is new only after all smaller names were
\* used (the names themselves carry no meaning).
InOrderOfFirstUse(seq) ==
    \A j \in 1 .. Len(seq) :
        seq[j] <= 1 + Cardinality({seq[i] : i \in 1 .. (j - 1)})
NameLists(n) == {seq \in [1 .. n -> Names] : InOrderOfFirstUse(seq)}

\* The locals of a call before line 327.
FreshLocals ==
    /\ cached_prompts = [t \in PromptTypes |-> None]
    /\ save_prompts = [t \in PromptTypes |-> FALSE]
    /\ img = 1

InitInference ==
    /\ \E n \in 0 .. MaxImages :
          /\ image_paths \in NameLists(n)
          /\ \E labels \in NameLists(n) :
                gt_paths \in {labels} \cup
                             (IF n > 0 THEN {SubSeq(labels, 1, n - 1)} ELSE {})
          /\ missing \in {{}} \cup {{j} : j \in 1 .. n}
    /\ prediction_dir \in SUBSET Names
    /\ prompt_save_dir \in {"None", "dir"}
    /\ use_prompts \in [PromptTypes -> BOOLEAN]
    /\ prompt_files \in
          IF prompt_save_dir = "None" THEN {[t \in PromptTypes |-> Absent]}
          ELSE [PromptTypes -> {Absent, File([x \in Names |-> 0]), File([x \in {1} |-> 0])}]
    /\ FreshLocals
    /\ run = 1
    /\ pred_writes = <<>>
    /\ loads = <<>>
    /\ dumps = <<>>
    /\ pc = "inference"
    \* segment_mask_in_volume is not running
    /\ npix = 1 /\ nslices = 1
    /\ segmentation = [z \in {0} |-> {}]
    /\ initial = segmentation
    /\ segmented_slices = <<0>>
    /\ stop_lower = FALSE /\ stop_upper = FALSE
    /\ iou_threshold = ThrDen
    /\ projection = "mask"
    /\ box_extension = 0
    /\ use_box = FALSE /\ use_mask = FALSE /\ use_points = FALSE
    /\ z0 = 0 /\ z1 = 0
    /\ frame = NoFrame
    /\ k = 1
    /\ log = <<>>
    /\ NoOuter

\* Variant: an existing prompt file is computed and written again.
get_prompt_type_caching_always_saves(use_type, exists) ==
    IF ~use_type THEN [cached_prompts |-> None, save_prompts |-> FALSE]
    ELSE [cached_prompts |-> Dict(EmptyDict), save_prompts |-> TRUE]

\* get_prompt_type_caching (lines 260-275), given whether the prompt file
\* exists: cached_prompts and save_prompts
get_prompt_type_caching(use_type, exists) ==
    IF ~use_type THEN [cached_prompts |-> None, save_prompts |-> FALSE]
    ELSE IF exists THEN [cached_prompts |-> Path, save_prompts |-> FALSE]
    ELSE [cached_prompts |-> Dict(EmptyDict), save_prompts |-> TRUE]

\* _get_prompt_caching (lines 279-290) for one prompt type
get_prompt_caching(t) ==
    IF prompt_save_dir = "None" THEN [cached_prompts |-> None, save_prompts |-> FALSE]
    ELSE get_prompt_type_caching(use_prompts[t], prompt_files[t].exists)

\* load_prompt_type (lines 32-44): the new cached_prompts, whether prompts
\* were found (prompts is not None), whether the file was unpickled, and
\* whether cached_prompts[image_name] raised KeyError.
load_prompt_type(cached, save, file, image_name) ==
    IF cached.kind = "None" \/ save
    THEN [cached_prompts |-> cached, found |-> FALSE, loaded |-> FALSE, error |-> FALSE]
    ELSE LET now == IF cached.kind = "str" THEN Dict(file.dict) ELSE cached
         IN [cached_prompts |-> now,
             found |-> image_name \in DOMAIN now.dict,
             loaded |-> cached.kind = "str",
             error |-> image_name \notin DOMAIN now.dict]

\* lines 327-338: the checks of the arguments and _get_prompt_caching
StartInference ==
    /\ pc = "inference"
    /\ IF ~(use_prompts["point"] \/ use_prompts["box"]) \/ Len(image_paths) # Len(gt_paths)
       THEN /\ pc' = "ValueError"
            /\ UNCHANGED <<cached_prompts, save_prompts>>
       ELSE /\ cached_prompts' = [t \in PromptTypes |-> get_prompt_caching(t).cached_prompts]
            /\ save_prompts' = [t \in PromptTypes |-> get_prompt_caching(t).save_prompts]
            /\ pc' = "for"
    /\ UNCHANGED <<propagation, image_paths, gt_paths, missing, prediction_dir,
                   prompt_save_dir, prompt_files, use_prompts, img, run, pred_writes,
                   loads, dumps>>

\* Variant: an image is segmented whether or not its prediction exists.
prediction_exists_never(image_name) == FALSE

\* os.path.exists(prediction_path), line 347
prediction_exists(image_name) == image_name \in prediction_dir

\* lines 342-348: an image that has been segmented already is skipped
SkipImage ==
    /\ pc = "for"
    /\ img <= Len(image_paths)
    /\ prediction_exists(image_paths[img])
    /\ img' = img + 1
    /\ UNCHANGED <<propagation, pc, image_paths, gt_paths, missing, prediction_dir,
                   prompt_save_dir, prompt_files, use_prompts, cached_prompts,
                   save_prompts, run, pred_writes, loads, dumps>>

\* lines 350-373: the image is read, its prompts are loaded or computed, it is
\* segmented, the prompts are kept and the prediction is written
ProcessImage ==
    /\ pc = "for"
    /\ img <= Len(image_paths)
    /\ ~prediction_exists(image_paths[img])
    /\ LET image_name == image_paths[img]
           label_name == gt_paths[img]
           point == load_prompt_type(cached_prompts["point"], save_prompts["point"],
                                     prompt_files["point"], label_name)
           box == load_prompt_type(cached_prompts["box"], save_prompts["box"],
                                   prompt_files["box"], label_name)
           loaded == (IF point.loaded THEN <<[run |-> run, type |-> "point"]>> ELSE <<>>)
                     \o (IF ~point.error /\ box.loaded
                         THEN <<[run |-> run, type |-> "box"]>> ELSE <<>>)
           \* this_prompts of line 363, by prompt type
           this_prompts ==
               [t \in PromptTypes |->
                   IF ~point.found /\ ~box.found THEN img
                   ELSE LET r == IF t = "point" THEN point ELSE box
                        IN IF r.found THEN r.cached_prompts.dict[label_name] ELSE -1]
           kept == [t \in PromptTypes |-> IF t = "point" THEN point.cached_prompts
                                                         ELSE box.cached_prompts]
       IN IF img \in missing
          THEN /\ pc' = "AssertionError"
               /\ UNCHANGED <<cached_prompts, prediction_dir, pred_writes, loads, img>>
          ELSE IF point.error \/ box.error
          THEN /\ pc' = "KeyError"
               /\ loads' = loads \o loaded
               /\ UNCHANGED <<cached_prompts, prediction_dir, pred_writes, img>>
          ELSE /\ loads' = loads \o loaded
               /\ cached_prompts' =
                     [t \in PromptTypes |->
                         IF save_prompts[t]
                         THEN Dict([x \in DOMAIN kept[t].dict \cup {label_name} |->
                                       IF x = label_name THEN this_prompts[t]
                                       ELSE kept[t].dict[x]])
                         ELSE kept[t]]
               /\ prediction_dir' = prediction_dir \cup {image_name}
               /\ pred_writes' = Append(pred_writes,
                                        [run |-> run, img |-> img, name |-> image_name,
                                         existed |-> image_name \in prediction_dir])
               /\ img' = img + 1
               /\ pc' = pc
    /\ UNCHANGED <<propagation, image_paths, gt_paths, missing, prompt_save_dir,
                   prompt_files, use_prompts, save_prompts, run, dumps>>

\* lines 375-382: the prompts computed for the first time are saved
SavePrompts ==
    /\ pc = "for"
    /\ img > Len(image_paths)
    /\ prompt_files' = [t \in PromptTypes |->
                           IF save_prompts[t] THEN File(cached_prompts[t].dict)
                           ELSE prompt_files[t]]
    /\ dumps' = dumps
          \o (IF save_prompts["point"]
              THEN <<[run |-> run, type |-> "point", existed |-> prompt_files["point"].exists]>>
              ELSE <<>>)
          \o (IF save_prompts["box"]
              THEN <<[run |-> run, type |-> "box", existed |-> prompt_files["box"].exists]>>
              ELSE <<>>)
    /\ pc' = "returned"
    /\ UNCHANGED <<propagation, image_paths, gt_paths, missing, prediction_dir,
                   prompt_save_dir, use_prompts, cached_prompts, save_prompts, img, run,
                   pred_writes, loads>>

\* The caller runs the same call a second time, on the files as they are now.
SecondRun ==
    /\ pc = "returned"
    /\ run = 1
    /\ run' = 2
    /\ pc' = "inference"
    /\ cached_prompts' = [t \in PromptTypes |-> None]
    /\ save_prompts' = [t \in PromptTypes |-> FALSE]
    /\ img' = 1
    /\ UNCHANGED <<propagation, image_paths, gt_paths, missing, prediction_dir,
                   prompt_save_dir, prompt_files, use_prompts, pred_writes, loads, dumps>>

NextInference ==
    \/ StartInference
    \/ SkipImage
    \/ ProcessImage
    \/ SavePrompts
    \/ SecondRun

SpecInference == InitInference /\ [][NextInference]_vars

----------------------------------------------------------------------------
\* Vocabulary of the properties.

Entries == 1 .. Len(log)
Pairs == 1 .. (Len(segmented_slices) - 1)
Lo(j) == segmented_slices[j]
Hi(j) == segmented_slices[j + 1]
Interior(j) == (Lo(j) + 1) .. (Hi(j) - 1)
CaseOf(j) == gap_case(Lo(j), Hi(j), z0, z1, stop_lower, stop_upper)

OutwardSites == {"below", "above"}
GapWalkSites == {"from_upper", "from_lower", "bottom", "top"}
GapSites == GapWalkSites \cup {"combined", "middle"}

\* The calls for slice z, and those whose outcome was written to it.
CallsOf(z) == {e \in Entries : log[e].i = z}
WritesOf(z) == {e \in Entries : log[e].i = z /\ log[e].wrote}
GapWritesOf(z) == {e \in WritesOf(z) : log[e].by \in GapSites}

\* The gate of line 69 rejects the outcome of call e.
BelowThreshold(e) ==
    /\ ~log[e].out.raised
    /\ IouLess(compute_iou(log[e].prompt, log[e].out.mask), iou_threshold)

----------------------------------------------------------------------------
\* C1: gap coverage.  No slice is written twice by the gap-filling loop, and
\* when segment_mask_in_volume returns every slice strictly between two
\* consecutive seed slices has been written exactly once by it.
C1_GapCoverage ==
    /\ \A z \in Slices : Cardinality(GapWritesOf(z)) <= 1
    /\ pc = "done" =>
          \A j \in Pairs : \A z \in Interior(j) : Cardinality(GapWritesOf(z)) = 1

\* A returned run over a gap of size 6 filled from both ends.
C1_Witness ==
    /\ pc = "done"
    /\ \E j \in Pairs : Hi(j) - Lo(j) = 6 /\ CaseOf(j) = "ranges"

\* C2: boundary respect.  Every slice asked of the segmenter, read for a
\* prompt or written lies in 0 .. lastSlice; with stop_lower nothing below
\* z0 is asked for or written, with stop_upper nothing above z1.
C2_BoundaryRespect ==
    /\ pc = "range" => frame.z \in Slices /\ (frame.z - frame.increment) \in Slices
    /\ \A e \in Entries :
          /\ log[e].i \in Slices
          /\ log[e].src \subseteq Slices
          /\ stop_lower => log[e].i >= z0
          /\ stop_upper => log[e].i <= z1
    /\ \A z \in Slices :
          /\ (stop_lower /\ z < z0) => segmentation[z] = initial[z]
          /\ (stop_upper /\ z > z1) => segmentation[z] = initial[z]

\* A returned run that walked down to slice 0 from a seed at 2 or above and,
\* with stop_upper, left slices above the highest seed alone.
C2_Witness ==
    /\ pc = "done"
    /\ ~stop_lower /\ stop_upper
    /\ z0 >= 2 /\ z1 < nslices - 1
    /\ WritesOf(0) # {}

\* C3: IoU halt without write.  When the gate rejects the candidate for
\* slice nextZ in an outward walk, the candidate is not written, that walk
\* makes no further call, nextZ and every slice beyond it in that direction
\* keep their initial content, and every slice between the seed and nextZ
\* was written by that walk.
C3_HaltWithoutWrite ==
    \A e \in Entries :
        (log[e].by \in OutwardSites /\ BelowThreshold(e)) =>
            LET nextZ == log[e].i
                beyond == IF log[e].by = "below" THEN 0 .. nextZ
                          ELSE nextZ .. (nslices - 1)
                between == IF log[e].by = "below" THEN (nextZ + 1) .. (z0 - 1)
                           ELSE (z1 + 1) .. (nextZ - 1)
            IN /\ ~log[e].wrote
               /\ \A f \in Entries : f > e => log[f].by # log[e].by
               /\ \A z \in beyond : WritesOf(z) = {} /\ segmentation[z] = initial[z]
               /\ \A z \in between :
                     \E f \in WritesOf(z) :
                        /\ f < e
                        /\ log[f].by = log[e].by
                        /\ segmentation[z] = log[f].out.mask

\* A returned run whose upward walk wrote a slice and was then halted by the
\* gate on a non-empty candidate, short of the last slice.
C3_Witness ==
    /\ pc = "done"
    /\ \E e \in Entries :
          /\ log[e].by = "above"
          /\ BelowThreshold(e)
          /\ log[e].out.mask # {}
          /\ log[e].i = z1 + 2
          /\ log[e].i < nslices - 1

StoppedLow(j) == Lo(j) = z0 /\ stop_lower
StoppedHigh(j) == Hi(j) = z1 /\ stop_upper
Mid(j) == (Lo(j) + Hi(j)) \div 2

\* The calls for the slices strictly between the slices of pair j.
InteriorCalls(j) == {e \in Entries : log[e].i \in Interior(j)}

\* C5 as stated: the slice between two seed slices two apart is segmented
\* once, from the logical OR of the two seed masks, whatever the stop flags.
C5_Original ==
    \A j \in Pairs :
        Hi(j) - Lo(j) = 2 =>
            /\ \A e \in InteriorCalls(j) :
                  /\ log[e].by = "combined"
                  /\ log[e].src = {Lo(j), Hi(j)}
                  /\ log[e].prompt = segmentation[Lo(j)] \cup segmentation[Hi(j)]
            /\ Cardinality(InteriorCalls(j)) <= 1
            /\ pc = "done" => Cardinality(WritesOf(Lo(j) + 1)) = 1

\* C5 amended: the same, for a pair that is not at a stopped end (not the
\* lowest seed with stop_lower, not the highest seed with stop_upper).
C5_CombinedPrompt ==
    \A j \in Pairs :
        (Hi(j) - Lo(j) = 2 /\ ~StoppedLow(j) /\ ~StoppedHigh(j)) =>
            /\ \A e \in InteriorCalls(j) :
                  /\ log[e].by = "combined"
                  /\ log[e].src = {Lo(j), Hi(j)}
                  /\ log[e].prompt = segmentation[Lo(j)] \cup segmentation[Hi(j)]
            /\ Cardinality(InteriorCalls(j)) <= 1
            /\ pc = "done" => Cardinality(WritesOf(Lo(j) + 1)) = 1

\* A returned run with two seed slices two apart holding different masks,
\* stop_lower set but the pair not at the lowest seed.
C5_Witness ==
    /\ pc = "done"
    /\ stop_lower
    /\ \E j \in Pairs :
          /\ Hi(j) - Lo(j) = 2
          /\ ~StoppedLow(j) /\ ~StoppedHigh(j)
          /\ initial[Lo(j)] # initial[Hi(j)]
          /\ WritesOf(Lo(j) + 1) # {}

\* C6: even range of more than two slices, not at a stopped end.  The walk
\* from the bottom segments exactly z_start+1 .. z_mid-1, the walk from the
\* top exactly z_mid+1 .. z_stop-1, and z_mid is segmented once, from the
\* logical OR of slices z_mid-1 and z_mid+1.
C6_EvenRange ==
    \A j \in Pairs :
        ((Hi(j) - Lo(j)) % 2 = 0 /\ Hi(j) - Lo(j) > 2
            /\ ~StoppedLow(j) /\ ~StoppedHigh(j)) =>
            /\ \A e \in InteriorCalls(j) :
                  LET i == log[e].i
                  IN /\ i < Mid(j) => log[e].by = "bottom" /\ log[e].src = {i - 1}
                     /\ i > Mid(j) => log[e].by = "top" /\ log[e].src = {i + 1}
                     /\ i = Mid(j) =>
                           /\ log[e].by = "middle"
                           /\ log[e].src = {i - 1, i + 1}
                           /\ log[e].prompt = segmentation[i - 1] \cup segmentation[i + 1]
            /\ \A z \in Interior(j) : Cardinality(CallsOf(z)) <= 1
            /\ pc = "done" => \A z \in Interior(j) : Cardinality(WritesOf(z)) = 1

\* A returned run with consecutive seeds at slices 2 and 6: slice 3 written
\* from slice 2, slice 5 from slice 6, slice 4 from both, slices 3 and 5
\* holding different masks.
C6_Witness ==
    /\ pc = "done"
    /\ \E j \in Pairs :
          /\ Lo(j) = 2 /\ Hi(j) = 6
          /\ ~StoppedLow(j) /\ ~StoppedHigh(j)
          /\ segmentation[3] # segmentation[5]
          /\ \E e \in WritesOf(4) : log[e].src = {3, 5}

\* C7 as stated: in a range of more than two slices the walk from the bottom
\* writes z_mid when the range is even and stops short of it when it is odd.
C7_Original ==
    \A j \in Pairs :
        (Hi(j) - Lo(j) > 2 /\ ~StoppedLow(j) /\ ~StoppedHigh(j)) =>
            IF (Hi(j) - Lo(j)) % 2 = 0
            THEN pc = "done" => \E e \in WritesOf(Mid(j)) : log[e].by = "bottom"
            ELSE \A e \in InteriorCalls(j) : log[e].by = "bottom" => log[e].i < Mid(j)

\* C7 amended: the walk from the bottom writes z_mid when the range is odd
\* and stops one slice short of z_mid when it is even; the walk from the top
\* stops before z_mid.
C7_BottomParity ==
    \A j \in Pairs :
        (Hi(j) - Lo(j) > 2 /\ ~StoppedLow(j) /\ ~StoppedHigh(j)) =>
            /\ \A e \in InteriorCalls(j) :
                  /\ log[e].by = "top" => log[e].i > Mid(j)
                  /\ log[e].by = "bottom" =>
                        IF (Hi(j) - Lo(j)) % 2 = 0
                        THEN log[e].i < Mid(j) ELSE log[e].i <= Mid(j)
            /\ pc = "done" =>
                  /\ (Hi(j) - Lo(j)) % 2 = 1 =>
                        \E e \in WritesOf(Mid(j)) : log[e].by = "bottom"
                  /\ (Hi(j) - Lo(j)) % 2 = 0 =>
                        \E e \in WritesOf(Mid(j) - 1) : log[e].by = "bottom"
                  /\ \E e \in WritesOf(Mid(j) + 1) : log[e].by = "top"

\* A returned run that filled an odd range and an even range of more than
\* two slices from both ends.
C7_Witness ==
    /\ pc = "done"
    /\ \E i, j \in Pairs :
          /\ Hi(i) - Lo(i) = 3 /\ ~StoppedLow(i) /\ ~StoppedHigh(i)
          /\ Hi(j) - Lo(j) = 4 /\ ~StoppedLow(j) /\ ~StoppedHigh(j)

\* C8 as stated: a range at the lower stop is filled by a walk upward from
\* z_start (slice z from slice z-1), a range at the upper stop by a walk
\* downward from z_stop (slice z from slice z+1).
C8_Original ==
    \A j \in Pairs :
        /\ StoppedLow(j) => \A e \in InteriorCalls(j) : log[e].src = {log[e].i - 1}
        /\ (StoppedHigh(j) /\ ~StoppedLow(j)) =>
              \A e \in InteriorCalls(j) : log[e].src = {log[e].i + 1}

\* C8 amended: a range of more than one slice at the lower stop is filled by
\* one walk downward from z_stop (slice z from slice z+1); otherwise a range
\* at the upper stop is filled by one walk upward from z_start (slice z from
\* slice z-1).
C8_StopWalkDirection ==
    \A j \in Pairs :
        /\ StoppedLow(j) =>
              /\ \A e \in InteriorCalls(j) :
                    log[e].by = "from_upper" /\ log[e].src = {log[e].i + 1}
              /\ \A e, f \in InteriorCalls(j) : e < f => log[f].i = log[e].i - (f - e)
        /\ (StoppedHigh(j) /\ ~StoppedLow(j)) =>
              /\ \A e \in InteriorCalls(j) :
                    log[e].by = "from_lower" /\ log[e].src = {log[e].i - 1}
              /\ \A e, f \in InteriorCalls(j) : e < f => log[f].i = log[e].i + (f - e)
        /\ ((StoppedLow(j) \/ StoppedHigh(j)) /\ pc = "done") =>
              \A z \in Interior(j) : Cardinality(WritesOf(z)) = 1

\* A returned run with a range of three slices or more at the upper stop, and
\* not at the lower stop.
C8_Witness ==
    /\ pc = "done"
    /\ \E j \in Pairs :
          /\ StoppedHigh(j) /\ ~StoppedLow(j)
          /\ Hi(j) - Lo(j) >= 3
          /\ \A z \in Interior(j) : WritesOf(z) # {}

\* The seed slices of pair j that are stops.
StoppedSeeds(j) ==
    (IF StoppedLow(j) THEN {Lo(j)} ELSE {}) \cup (IF StoppedHigh(j) THEN {Hi(j)} ELSE {})

\* C9 as stated: a range at a stopped end is filled by one walk that starts
\* at the seed of the other end; no prompt is taken from a stopped seed.
C9_Original ==
    \A j \in Pairs :
        \A e \in InteriorCalls(j) :
            (StoppedLow(j) \/ StoppedHigh(j)) => log[e].src \cap StoppedSeeds(j) = {}

\* C9 amended: a range with exactly one stopped end is filled by one walk
\* that starts at the seed of the other end and moves toward the stopped
\* seed, and no prompt is taken from the stopped seed; a range stopped at
\* both ends is filled by one walk downward from z_stop.
C9_WalkFromOtherSide ==
    \A j \in Pairs :
        \A e \in InteriorCalls(j) :
            LET first == \A f \in InteriorCalls(j) : e <= f
            IN /\ (StoppedLow(j) /\ ~StoppedHigh(j)) =>
                    /\ log[e].src \cap StoppedSeeds(j) = {}
                    /\ first => log[e].i = Hi(j) - 1 /\ log[e].src = {Hi(j)}
                    /\ ~first => log[e].src = {log[e - 1].i} /\ log[e].i = log[e - 1].i - 1
               /\ (StoppedHigh(j) /\ ~StoppedLow(j)) =>
                    /\ log[e].src \cap StoppedSeeds(j) = {}
                    /\ first => log[e].i = Lo(j) + 1 /\ log[e].src = {Lo(j)}
                    /\ ~first => log[e].src = {log[e - 1].i} /\ log[e].i = log[e - 1].i + 1
               /\ (StoppedLow(j) /\ StoppedHigh(j)) =>
                    /\ first => log[e].i = Hi(j) - 1 /\ log[e].src = {Hi(j)}
                    /\ ~first => log[e].src = {log[e - 1].i} /\ log[e].i = log[e - 1].i - 1

\* A returned run with a range of three slices or more at the lower stop, and
\* not at the upper stop.
C9_Witness ==
    /\ pc = "done"
    /\ \E j \in Pairs :
          /\ StoppedLow(j) /\ ~StoppedHigh(j)
          /\ Hi(j) - Lo(j) >= 3
          /\ \A z \in Interior(j) : WritesOf(z) # {}

\* C10: no partial-state corruption on failure.  When a segment_from_mask
\* call for slice z raises, slice z is unwritten and holds its initial
\* content, every slice written before holds the mask written to it, and
\* every other slice (the seed slices among them) holds its initial content.
C10_NoCorruptionOnFailure ==
    pc = "raised" =>
        LET e == Len(log)
        IN /\ log[e].out.raised
           /\ ~log[e].wrote
           /\ WritesOf(log[e].i) = {}
           /\ segmentation[log[e].i] = initial[log[e].i]
           /\ \A f \in Entries : log[f].wrote => segmentation[log[f].i] = log[f].out.mask
           /\ \A z \in Slices : WritesOf(z) = {} => segmentation[z] = initial[z]
           /\ \A z \in SeedSet : WritesOf(z) = {}

\* A run in which a walk wrote a non-empty mask to a slice and the call for
\* the next slice, prompted from it, raised.
C10_Witness ==
    /\ pc = "raised"
    /\ \E f \in Entries :
          /\ f < Len(log)
          /\ log[f].wrote
          /\ log[Len(log)].by \in GapWalkSites \cup OutwardSites
          /\ log[Len(log)].src = {log[f].i}
          /\ log[Len(log)].prompt # {}

\* C11: failures are neither caught nor retried.  A segment_from_mask call
\* that raised is the last call of the run: no retry of the slice, no other
\* walk, no other gap; the run has ended with the exception.
C11_NoCallAfterFailure ==
    /\ \A e \in Entries :
          log[e].out.raised => e = Len(log) /\ pc = "raised" /\ ~log[e].wrote
    /\ pc = "raised" => log # <<>> /\ log[Len(log)].out.raised /\ frame = NoFrame

\* A run whose walk below the lowest seed failed on a non-empty prompt while
\* the walk above the highest seed and a gap were still to do.
C11_Witness ==
    /\ pc = "raised"
    /\ log[Len(log)].by = "below"
    /\ log[Len(log)].prompt # {}
    /\ ~stop_upper /\ z1 < nslices - 1
    /\ \E j \in Pairs : Hi(j) - Lo(j) > 1

\* The configuration is valid: iou_threshold in (0, 1], a known projection,
\* box_extension >= 0.
ValidConfig ==
    /\ iou_threshold \in 1 .. ThrDen
    /\ projection \in {"mask", "bounding_box", "points"}
    /\ box_extension >= 0

\* C12 as stated: a call with an invalid configuration is rejected before
\* any segment_from_mask call and before any slice is written.
C12_Original ==
    ~ValidConfig => /\ log = <<>>
                    /\ segmentation = initial
                    /\ pc \in {"entry", "rejected"}

\* C16: projection mode to prompt fields.  Every call carries the box; it
\* carries the mask exactly for 'mask' and 'points' and points exactly for
\* 'points'; walk steps and combined-prompt steps alike.
C16_PromptFlags ==
    \A e \in Entries :
        /\ log[e].use_box
        /\ log[e].use_mask <=> projection \in {"mask", "points"}
        /\ log[e].use_points <=> projection = "points"

\* A returned run with projection 'points' that made a walk step and a
\* combined-prompt step.
C16_Witness ==
    /\ pc = "done"
    /\ projection = "points"
    /\ \E e, f \in Entries :
          /\ log[e].by \in GapWalkSites \cup OutwardSites
          /\ log[f].by \in {"combined", "middle"}

\* C13: the IoU gate.  An outward walk writes the candidate B for the
\* previous mask A and goes on exactly when |A n B| / |A u B| >= iou_threshold
\* (equality goes on); on two empty masks the gate answers halt.
C13_IouGate ==
    /\ \A e \in Entries :
          (log[e].by \in OutwardSites /\ ~log[e].out.raised) =>
              LET A == log[e].prompt
                  B == log[e].out.mask
              IN log[e].wrote <=>
                    /\ A \cup B # {}
                    /\ Cardinality(A \cap B) * ThrDen
                          >= iou_threshold * Cardinality(A \cup B)
    /\ pc = "entry" =>
          \A A, B \in Masks :
              LET halt == IouLess(compute_iou(A, B), iou_threshold)
              IN IF A \cup B = {} THEN halt
                 ELSE halt <=> Cardinality(A \cap B) * ThrDen
                                  < iou_threshold * Cardinality(A \cup B)

\* A returned run in which an outward walk got a candidate whose IoU with
\* the previous mask equals a threshold below 1, wrote it and went on.
C13_Witness ==
    /\ pc = "done"
    /\ iou_threshold < ThrDen
    /\ \E e, f \in Entries :
          /\ log[e].by \in OutwardSites
          /\ log[e].wrote
          /\ log[e].prompt # log[e].out.mask
          /\ Cardinality(log[e].prompt \cap log[e].out.mask) * ThrDen
                = iou_threshold * Cardinality(log[e].prompt \cup log[e].out.mask)
          /\ log[f].by = log[e].by
          /\ log[f].src = {log[e].i}

\* C14: full population.  With both stop flags false, when the run returns
\* and every candidate of the outward walks was accepted, every slice is a
\* seed slice or was written.
C14_FullPopulation ==
    (/\ pc = "done"
     /\ ~stop_lower /\ ~stop_upper
     /\ \A e \in Entries : log[e].by \in OutwardSites => log[e].wrote) =>
        \A z \in Slices : z \in SeedSet \/ WritesOf(z) # {}

\* A returned run that filled the slices below the lowest seed, those above
\* the highest seed and a gap of three slices or more.
C14_Witness ==
    /\ pc = "done"
    /\ ~stop_lower /\ ~stop_upper
    /\ z0 >= 2 /\ z1 <= nslices - 3
    /\ \E j \in Pairs : Hi(j) - Lo(j) >= 3
    /\ \A z \in Slices : z \in SeedSet \/ WritesOf(z) # {}

\* C15: write-once slices and untouched seeds.  No slice is written more than
\* once in a run, whichever walk or gap fill writes it, and no seed slice is
\* written.
C15_WriteOnce ==
    \A z \in Slices :
        /\ Cardinality(WritesOf(z)) <= 1
        /\ z \in SeedSet => WritesOf(z) = {} /\ segmentation[z] = initial[z]

\* A returned run with writes below, above and between the seeds, by a walk
\* and by a combined prompt.
C15_Witness ==
    /\ pc = "done"
    /\ \E a, b, c, d \in Entries :
          /\ log[a].by = "below" /\ log[a].wrote
          /\ log[b].by = "above" /\ log[b].wrote
          /\ log[c].by = "top" /\ log[c].wrote
          /\ log[d].by = "middle" /\ log[d].wrote

\* C20: prompt sources are populated.  Every slice read to build the prompt
\* of a call is a seed slice, which holds a mask, or a slice written by an
\* earlier call of the run.
C20_PromptSources ==
    \A e \in Entries :
        \A s \in log[e].src :
            \/ s \in SeedSet /\ initial[s] # {}
            \/ \E f \in 1 .. (e - 1) : log[f].i = s /\ log[f].wrote

\* A returned run with a call prompted from two slices written earlier in the
\* run, and a walk step prompted from a slice written by the step before.
C20_Witness ==
    /\ pc = "done"
    /\ \E e, f \in Entries :
          /\ log[e].by = "middle"
          /\ log[e].src \cap SeedSet = {}
          /\ log[f].by = "above"
          /\ log[f].src \cap SeedSet = {}

\* The run of the scenario: every candidate below the seed was accepted,
\* those for slices 6 and 7 were accepted, the one for slice 8 was rejected.
ScenarioRun ==
    /\ pc = "done"
    /\ \A e \in Entries : log[e].by = "below" => log[e].wrote
    /\ WritesOf(6) # {} /\ WritesOf(7) # {}
    /\ \E e \in CallsOf(8) : ~log[e].wrote /\ ~log[e].out.raised

\* C19: in the scenario the walk below writes every slice down to slice 0,
\* the walk above halts with slice 7 the last one written, and slices 8
\* and 9 stay all-zero.
C19_Scenario ==
    ScenarioRun =>
        /\ \A z \in 0 .. 4 :
              \E e \in WritesOf(z) : log[e].by = "below" /\ segmentation[z] = log[e].out.mask
        /\ \A z \in 6 .. 7 :
              \E e \in WritesOf(z) : log[e].by = "above" /\ segmentation[z] = log[e].out.mask
        /\ \A z \in 8 .. 9 : WritesOf(z) = {} /\ segmentation[z] = {}
        /\ CallsOf(9) = {}
        /\ segmentation[5] = initial[5]

\* The scenario run has happened.
C19_Witness == ScenarioRun /\ nslices = 10 /\ z0 = 5 /\ z1 = 5

\* The objects merged so far whose volume covers pixel p of slice zz.
Covering(zz, p) == {i \in 1 .. Len(volumes) : p \in volumes[i].this_seg[zz]}

\* C17: merging in segment_3d_from_slice.  Every object of the seed slice is
\* propagated, in ascending label order, in a volume of its own that starts
\* all-zero but for its mask at slice z; in the merged volume a voxel holds
\* the label of the last merged object whose volume covers it, 0 if none.
C17_Merge ==
    /\ \A i \in 1 .. (Len(seg_ids) - 1) : seg_ids[i] < seg_ids[i + 1]
    /\ {seg_ids[i] : i \in 1 .. Len(seg_ids)}
          = {seed_seg[p] : p \in 1 .. npix} \ {0}
    /\ Len(volumes) = obj - 1
    /\ \A i \in 1 .. Len(volumes) : volumes[i].seg_id = seg_ids[i]
    /\ pc \notin {"for", "returned"} =>
          /\ segmented_slices = <<z_slice>>
          /\ \A zz \in Slices :
                initial[zz] = IF zz = z_slice
                              THEN {p \in 1 .. npix : seed_seg[p] = seg_ids[obj]}
                              ELSE {}
    /\ \A zz \in Slices : \A p \in 1 .. npix :
          merged[zz][p] =
              IF Covering(zz, p) = {} THEN 0
              ELSE LET last == CHOOSE i \in Covering(zz, p) :
                                  \A j \in Covering(zz, p) : j <= i
                   IN volumes[last].seg_id

\* segment_3d_from_slice has returned a volume in which a voxel covered by
\* the volumes of two objects holds the label of the second, and another
\* voxel holds the label of the first.
C17_Witness ==
    /\ pc = "returned"
    /\ Len(volumes) >= 2
    /\ \E zz \in Slices : \E p \in 1 .. npix :
          /\ {1, 2} \subseteq Covering(zz, p)
          /\ merged[zz][p] = volumes[2].seg_id
    /\ \E zz \in Slices : \E p \in 1 .. npix : merged[zz][p] = volumes[1].seg_id

\* segment_from_mask has returned at every call so far.
AlwaysReturned == \A e \in Entries : ~log[e].out.raised
\* The calls whose outcome the gate of line 69 rejected.
Rejected == {e \in Entries : ~log[e].out.raised /\ ~log[e].wrote}

\* What bounds the work of a run in which segment_from_mask always returned:
\* every call is for a slice of the volume that is no seed slice, no slice is
\* asked for twice, a call that is not written is a rejected candidate of an
\* outward walk and the last call of that walk, and a running segment_range
\* is at a slice of the volume between its ends.
BoundedWork ==
    /\ \A e \in Entries : log[e].i \in Slices \ SeedSet
    /\ \A e1, e2 \in Entries : log[e1].i = log[e2].i => e1 = e2
    /\ \A e \in Rejected :
          /\ log[e].by \in OutwardSites
          /\ BelowThreshold(e)
          /\ \A e2 \in Entries : e2 > e => log[e2].by # log[e].by
    /\ \A site \in OutwardSites :
          Cardinality({e \in Rejected : log[e].by = site}) <= 1
    /\ Len(log) <= nslices - Len(segmented_slices)
    /\ pc = "range" =>
          /\ frame.z \in Slices \ SeedSet
          /\ (frame.z - frame.increment) \in Slices
          /\ IF frame.increment = 1
             THEN frame.z_start < frame.z /\ frame.z <= frame.z_stop
             ELSE frame.z_stop <= frame.z /\ frame.z < frame.z_start

\* C21: termination with bounded work.  With seed slices strictly increasing
\* inside a volume of N slices and segment_from_mask returning at every call,
\* segment_mask_in_volume reaches its return statement; until then every
\* segment_range loop stays inside the volume and leaves through the gate or
\* its stopping criterion, and the calls of segment_from_mask number at most
\* N minus the number of seed slices: one per written slice and at most one
\* rejected candidate per outward walk.
C21_TerminationBoundedWork ==
    /\ [](AlwaysReturned => BoundedWork)
    /\ <>(pc = "done" \/ ~AlwaysReturned)

\* segment_mask_in_volume has returned after calls that all returned: both
\* outward walks ended on a rejected candidate, a range between two seed
\* slices was filled, and the number of calls is N minus the number of seeds.
C21_Witness ==
    /\ pc = "done"
    /\ AlwaysReturned
    /\ Len(log) = nslices - Len(segmented_slices)
    /\ \A site \in OutwardSites : \E e \in Rejected : log[e].by = site
    /\ \E e \in Entries : log[e].by \in GapWalkSites

\* The images processed (not skipped) in the current call, by index.
Processed == {pred_writes[w].img : w \in {v \in 1 .. Len(pred_writes) : pred_writes[v].run = run}}
\* The prompt types whose file the current call has written.
Dumped == {dumps[d].type : d \in {c \in 1 .. Len(dumps) : dumps[c].run = run}}

\* Resume: no prediction file that exists is written, and the second call
\* over the same inputs writes none.
ResumeSkips ==
    /\ \A w \in 1 .. Len(pred_writes) : ~pred_writes[w].existed /\ pred_writes[w].run = 1
    /\ \A w1, w2 \in 1 .. Len(pred_writes) :
          pred_writes[w1].name = pred_writes[w2].name => w1 = w2

\* A prompt file that exists is unpickled at most once in a call and is
\* never written.
CacheReadOnly ==
    /\ \A l1, l2 \in 1 .. Len(loads) : loads[l1] = loads[l2] => l1 = l2
    /\ \A d \in 1 .. Len(dumps) : ~dumps[d].existed

\* C22 as stated: resume and prompt-cache consistency of
\* run_inference_with_prompts.  An image whose prediction exists is skipped
\* and a second call writes no prediction; a prompt file that exists is
\* loaded at most once and never rewritten; a prompt file written at the end
\* of a call holds exactly one entry per image processed in that call.
C22_Original ==
    /\ ResumeSkips
    /\ CacheReadOnly
    /\ pc = "returned" =>
          \A t \in Dumped :
              Cardinality(DOMAIN prompt_files[t].dict) = Cardinality(Processed)

\* What the code keeps instead: the written prompt file has one entry per
\* distinct label file name of the images processed, the entry of a name
\* shared by several images being that of the last one.
PromptFileKeyedByLabel ==
    /\ ResumeSkips
    /\ CacheReadOnly
    /\ pc = "returned" =>
          \A t \in Dumped :
              /\ DOMAIN prompt_files[t].dict = {gt_paths[j] : j \in Processed}
              /\ \A j \in Processed :
                    prompt_files[t].dict[gt_paths[j]] \in {-1} \cup
                        {j2 \in Processed : j2 >= j /\ gt_paths[j2] = gt_paths[j]}

\* Two images with label files of the same name were processed and the prompt
\* file written holds a single entry.
SharedLabelName ==
    /\ pc = "returned"
    /\ Cardinality(Processed) = 2
    /\ \E t \in Dumped : Cardinality(DOMAIN prompt_files[t].dict) = 1

====
